---------------------------- MODULE Spec2Model ----------------------------
(***************************************************************************)
(* A model of the WindLayer controller of cesium-wind-layer                *)
(* (packages/cesium-wind-layer/src/index.ts): field normalisation          *)
(* (processWindData), the point query (getDataAtLonLat), the viewport      *)
(* tracker (updateViewerParameters) and the layer's lifecycle, visibility  *)
(* and notifications.                                                      *)
(*                                                                         *)
(* Numbers.  The code computes in IEEE doubles.  The model computes in     *)
(* exact arithmetic: a number is a pair <<n, d>>, the fraction n/d in      *)
(* lowest terms with d > 0, and the three values a division by zero        *)
(* produces are <<1, 0>> (+Infinity), <<-1, 0>> (-Infinity) and <<0, 0>>   *)
(* (NaN).  Rounding is therefore not modelled; order, clamping, and the    *)
(* propagation of NaN and Infinity are.                                    *)
(***************************************************************************)
EXTENDS Integers, Sequences, FiniteSets, TLC

VARIABLES
    show,               \* WindLayer._show
    isDestroyed,        \* WindLayer._isDestroyed
    windData,           \* WindLayer.windData, the normalised field
    options,            \* WindLayer.options
    viewerParameters,   \* WindLayer.viewerParameters, shared with the engine
    primitives,         \* WindLayer.primitives, the owned drawables
    eventListeners,     \* WindLayer.eventListeners: kind -> set of callbacks
    sceneMode,          \* scene.mode of the host
    scenePrimitives,    \* scene.primitives of the host
    primitiveShow,      \* the show flag of each drawable of the engine
    hostListeners,      \* the functions registered with camera.changed,
                        \* scene.morphComplete and window "resize"
    bindCount,          \* how many function objects Function.bind has made
    engineDestroyed,    \* whether WindParticleSystem.destroy has been called
    queryResult,        \* what the last getDataAtLonLat returned
    lastCall,           \* the last operation or host event, with its input
    calls,              \* the calls that operation made to its collaborators
    subscribed          \* kind -> the callbacks added and not removed since

vars == << show, isDestroyed, windData, options, viewerParameters, primitives,
           eventListeners, sceneMode, scenePrimitives, primitiveShow,
           hostListeners, bindCount, engineDestroyed, queryResult, lastCall,
           calls, subscribed >>

-----------------------------------------------------------------------------
(* Numbers *)

Abs(i) == IF i < 0 THEN -i ELSE i

Sign(i) == IF i > 0 THEN 1 ELSE IF i < 0 THEN -1 ELSE 0

RECURSIVE Gcd(_, _)
Gcd(a, b) == IF b = 0 THEN a ELSE Gcd(b, a % b)

\* n/d as a number: lowest terms, positive denominator; x/0 is an infinity
\* or NaN as in IEEE arithmetic.
Num(n, d) ==
    IF d = 0 THEN << Sign(n), 0 >>
    ELSE LET g == Gcd(Abs(n), Abs(d))
             s == Sign(d)
         IN  << (s * n) \div g, (s * d) \div g >>

Whole(i) == << i, 1 >>

NaN == << 0, 0 >>

IsNaN(a) == a = NaN

IsFinite(a) == a[2] # 0

\* a < b as JavaScript compares numbers: false when either is NaN.
Lt(a, b) ==
    IF IsNaN(a) \/ IsNaN(b) THEN FALSE
    ELSE IF a[2] = 0 /\ b[2] = 0 THEN a[1] < b[1]
    ELSE a[1] * b[2] < b[1] * a[2]

Gt(a, b) == Lt(b, a)

Le(a, b) == ~IsNaN(a) /\ ~IsNaN(b) /\ ~Lt(b, a)

\* Sums and differences are only taken of finite numbers in this program.
NumAdd(a, b) == Num(a[1] * b[2] + b[1] * a[2], a[2] * b[2])

NumSub(a, b) == Num(a[1] * b[2] - b[1] * a[2], a[2] * b[2])

\* 0 * Infinity is NaN, which Num yields from 0/0.
NumMul(a, b) == Num(a[1] * b[1], a[2] * b[2])

\* a / b for finite a and b.
NumDiv(a, b) == Num(a[1] * b[2], a[2] * b[1])

\* Math.min and Math.max: NaN when either argument is NaN.
MathMin(a, b) == IF IsNaN(a) \/ IsNaN(b) THEN NaN ELSE IF Lt(b, a) THEN b ELSE a

MathMax(a, b) == IF IsNaN(a) \/ IsNaN(b) THEN NaN ELSE IF Lt(a, b) THEN b ELSE a

\* Math.floor (\div rounds towards minus infinity); NaN and the infinities
\* are their own floor.
Floor(a) == IF a[2] = 0 THEN a ELSE Whole(a[1] \div a[2])

\* The exact root of a perfect square (the model's samples are chosen so that
\* every magnitude sqrt(u*u + v*v) is rational).
IntSqrt(k) == CHOOSE r \in 0..k : r * r = k

\* Math.sqrt of a non-negative finite number or NaN.
Sqrt(a) == IF IsNaN(a) THEN NaN ELSE Num(IntSqrt(a[1]), IntSqrt(a[2]))

\* Number.MAX_VALUE and Number.MIN_VALUE are stood for by Huge and 1/Huge:
\* the first is above every sample of the model, the second is positive and
\* below every positive sample, which is all the code uses them for.
Huge == 10000

NumberMaxValue == << Huge, 1 >>

NumberMinValue == << 1, Huge >>

-----------------------------------------------------------------------------
(* Field normalisation: processWindData *)

\* An array of numbers from a sequence of integers.
Arr(s) == [i \in DOMAIN s |-> Whole(s[i])]

\* array[i] as JavaScript reads it: undefined past the end, which arithmetic
\* turns into NaN.
At(array, i) == IF i \in DOMAIN array THEN array[i] ELSE NaN

\* An axis that the caller did not supply (windData.speed or windData.mask
\* undefined).
NoAxis ==
    [defined |-> FALSE, hasArray |-> FALSE, hasMin |-> FALSE, hasMax |-> FALSE,
     array |-> << >>, min |-> Whole(0), max |-> Whole(0)]

\* A supplied axis with its array but neither min nor max.
BareAxis(array) ==
    [defined |-> TRUE, hasArray |-> TRUE, hasMin |-> FALSE, hasMax |-> FALSE,
     array |-> array, min |-> Whole(0), max |-> Whole(0)]

\* A supplied axis with array, min and max.
FullAxis(array, min, max) ==
    [defined |-> TRUE, hasArray |-> TRUE, hasMin |-> TRUE, hasMax |-> TRUE,
     array |-> array, min |-> min, max |-> max]

\* speed.array[i] = Math.sqrt(u[i] * u[i] + v[i] * v[i]), i counted from 1.
SpeedAt(data, i) ==
    LET ui == At(data.u.array, i)
        vi == At(data.v.array, i)
    IN  Sqrt(NumAdd(NumMul(ui, ui), NumMul(vi, vi)))

SpeedArray(data) == [i \in 1..Len(data.u.array) |-> SpeedAt(data, i)]

\* A variant of lines 129-132 without the test speed.array[i] !== 0.
SpeedStepAll(r, speed) == << MathMin(r[1], speed), MathMax(r[2], speed) >>

\* The loop of lines 127-133 over the first n cells: <<min, max>> of the
\* cells whose speed is not 0, started from the two sentinels.
SpeedStep(r, speed) ==
    IF speed # Whole(0)
    THEN << MathMin(r[1], speed), MathMax(r[2], speed) >>
    ELSE r

RECURSIVE SpeedRange(_, _)
SpeedRange(array, n) ==
    IF n = 0 THEN << NumberMaxValue, NumberMinValue >>
    ELSE SpeedStep(SpeedRange(array, n - 1), array[n])

\* The loop of lines 149-152 over the first n cells of a supplied mask.
MaskStep(r, value) == << MathMin(r[1], value), MathMax(r[2], value) >>

RECURSIVE MaskRange(_, _)
MaskRange(array, n) ==
    IF n = 0 THEN << NumberMaxValue, NumberMinValue >>
    ELSE MaskStep(MaskRange(array, n - 1), array[n])

DerivedSpeed(data) ==
    LET array == SpeedArray(data)
        r == SpeedRange(array, Len(array))
    IN  FullAxis(array, r[1], r[2])

\* new Float32Array(n).fill(1.0) with min = max = 1.0
DefaultMask(data) ==
    FullAxis([i \in 1..Len(data.u.array) |-> Whole(1)], Whole(1), Whole(1))

ProcessedMask(mask) ==
    LET r == MaskRange(mask.array, Len(mask.array))
    IN  [mask EXCEPT !.hasMin = TRUE, !.hasMax = TRUE, !.min = r[1], !.max = r[2]]

\* A variant of processWindData that derives the speed axis whether or not
\* the caller supplied one.
processWindDataRederived(data) ==
    LET mask ==  IF ~data.mask.defined THEN DefaultMask(data)
                 ELSE IF ~data.mask.hasMin \/ ~data.mask.hasMax
                      THEN ProcessedMask(data.mask)
                      ELSE data.mask
    IN  [data EXCEPT !.speed = DerivedSpeed(data), !.mask = mask]

processWindData(data) ==
    LET speed == IF \/ ~data.speed.defined
                    \/ ~data.speed.hasMin
                    \/ ~data.speed.hasMax
                    \/ ~data.speed.hasArray
                 THEN DerivedSpeed(data)
                 ELSE data.speed
        mask ==  IF ~data.mask.defined THEN DefaultMask(data)
                 ELSE IF ~data.mask.hasMin \/ ~data.mask.hasMax
                      THEN ProcessedMask(data.mask)
                      ELSE data.mask
    IN  [data EXCEPT !.speed = speed, !.mask = mask]

\* A raw field as the caller passes it.
WindData(west, east, south, north, width, height, u, v, speed, mask) ==
    [bounds |-> [west |-> Whole(west), east |-> Whole(east),
                 south |-> Whole(south), north |-> Whole(north)],
     width |-> width, height |-> height,
     u |-> [array |-> Arr(u)], v |-> [array |-> Arr(v)],
     speed |-> speed, mask |-> mask]

-----------------------------------------------------------------------------
(* Viewport tracker: updateViewerParameters *)

\* What camera.pickEllipsoid and cartesianToCartographic give for one screen
\* corner: no intersection, or a longitude and latitude in degrees.
NoHit == [hit |-> FALSE, lon |-> Whole(0), lat |-> Whole(0)]

Hit(lon, lat) == [hit |-> TRUE, lon |-> Whole(lon), lat |-> Whole(lat)]

\* The four corners in the order of lines 241-246: (0,0), (0,h), (w,0), (w,h),
\* for a view whose left edge is at lon1, right edge at lon2, bottom at lat1
\* and top at lat2; the corners in miss do not intersect the globe.
Corners(lon1, lon2, lat1, lat2, miss) ==
    [i \in 1..4 |->
        IF i \in miss THEN NoHit
        ELSE Hit(IF i \in {1, 2} THEN lon1 ELSE lon2,
                 IF i \in {1, 3} THEN lat2 ELSE lat1)]

\* The loop of lines 255-274 from corner i on: it stops at the first corner
\* that misses the globe.
RECURSIVE ScanCorners(_, _, _)
ScanCorners(corners, i, acc) ==
    IF i > Len(corners) THEN acc
    ELSE IF ~corners[i].hit THEN [acc EXCEPT !.isOutsideGlobe = TRUE]
    ELSE ScanCorners(corners, i + 1,
            [acc EXCEPT !.minLon = MathMin(acc.minLon, corners[i].lon),
                        !.maxLon = MathMax(acc.maxLon, corners[i].lon),
                        !.minLat = MathMin(acc.minLat, corners[i].lat),
                        !.maxLat = MathMax(acc.maxLat, corners[i].lat)])

ScreenExtent(corners) ==
    ScanCorners(corners, 1,
        [isOutsideGlobe |-> FALSE,
         minLon |-> Whole(180), maxLon |-> Whole(-180),
         minLat |-> Whole(90), maxLat |-> Whole(-90)])

\* Lines 278-285 for one axis: the visible range cut to the field's range.
IntersectRange(lo, hi, min, max) == << MathMax(lo, min), MathMin(hi, max) >>

\* Lines 288-294 for one axis: 5% of the range added on both sides, cut to
\* the field's range again.
BufferRange(lo, hi, range) ==
    LET buffer == NumMul(NumSub(range[2], range[1]), Num(5, 100))
    IN  << MathMax(lo, NumSub(range[1], buffer)),
           MathMin(hi, NumAdd(range[2], buffer)) >>

\* lonRange and latRange as lines 296-297 assign them.
VisibleLonRange(bounds, extent) ==
    BufferRange(bounds.west, bounds.east,
        IntersectRange(bounds.west, bounds.east, extent.minLon, extent.maxLon))

VisibleLatRange(bounds, extent) ==
    BufferRange(bounds.south, bounds.north,
        IntersectRange(bounds.south, bounds.north, extent.minLat, extent.maxLat))

\* Lines 299-305: the smaller of the two visible fractions.
VisibleRatio(bounds, lonRange, latRange) ==
    LET dataLonRange == NumSub(bounds.east, bounds.west)
        dataLatRange == NumSub(bounds.north, bounds.south)
        visibleRatioLon == NumDiv(NumSub(lonRange[2], lonRange[1]), dataLonRange)
        visibleRatioLat == NumDiv(NumSub(latRange[2], latRange[1]), dataLatRange)
    IN  MathMin(visibleRatioLon, visibleRatioLat)

\* A variant of line 308 that grows as the visible fraction shrinks.
ScaledPixelSizeInverted(visibleRatio) ==
    NumMul(Whole(1000), NumSub(Whole(1), visibleRatio))

\* Line 308.
ScaledPixelSize(visibleRatio) == NumMul(Whole(1000), visibleRatio)

\* A variant of lines 309-311 without the test pixelSize > 0.
AssignPixelSizeAlways(previous, pixelSize) ==
    MathMax(Whole(0), MathMin(Whole(1000), pixelSize))

\* Lines 309-311: the pixelSize the viewport has afterwards.
AssignPixelSize(previous, pixelSize) ==
    IF Gt(pixelSize, Whole(0))
    THEN MathMax(Whole(0), MathMin(Whole(1000), pixelSize))
    ELSE previous

\* The local values of one run of updateViewerParameters: whether a corner
\* missed the globe and, if none did, the two ranges, the visible ratio and
\* the pixelSize of line 308.
LocalsOfRatio(isOutsideGlobe, lonRange, latRange, visibleRatio) ==
    [isOutsideGlobe |-> isOutsideGlobe,
     lonRange |-> lonRange, latRange |-> latRange,
     visibleRatio |-> IF isOutsideGlobe THEN NaN ELSE visibleRatio,
     pixelSize |-> IF isOutsideGlobe THEN NaN ELSE ScaledPixelSize(visibleRatio)]

LocalsOfRanges(bounds, isOutsideGlobe, lonRange, latRange) ==
    LocalsOfRatio(isOutsideGlobe, lonRange, latRange,
                  VisibleRatio(bounds, lonRange, latRange))

LocalsOfExtent(bounds, extent) ==
    LocalsOfRanges(bounds, extent.isOutsideGlobe,
                   VisibleLonRange(bounds, extent),
                   VisibleLatRange(bounds, extent))

ViewerLocals(data, corners) == LocalsOfExtent(data.bounds, ScreenExtent(corners))

\* A variant of lines 276-315 that returns before line 315 when a corner
\* misses the globe.
StoreLocalsStaleMode(params, l, mode) ==
    IF l.isOutsideGlobe
    THEN params
    ELSE [lonRange |-> l.lonRange,
          latRange |-> l.latRange,
          pixelSize |-> IF Gt(l.pixelSize, Whole(0))
                        THEN MathMax(Whole(0), MathMin(Whole(1000), l.pixelSize))
                        ELSE params.pixelSize,
          sceneMode |-> mode]

\* Lines 276-315: what the run leaves in the viewport.
StoreLocals(params, l, mode) ==
    IF l.isOutsideGlobe
    THEN [params EXCEPT !.sceneMode = mode]
    ELSE [lonRange |-> l.lonRange,
          latRange |-> l.latRange,
          pixelSize |-> AssignPixelSize(params.pixelSize, l.pixelSize),
          sceneMode |-> mode]

\* The viewport after one run of updateViewerParameters.
updateViewerParameters(params, data, corners, mode) ==
    StoreLocals(params, ViewerLocals(data, corners), mode)

\* Lines 93-98.
InitialViewerParameters(mode) ==
    [lonRange |-> << Whole(-180), Whole(180) >>,
     latRange |-> << Whole(-90), Whole(90) >>,
     pixelSize |-> Whole(1000),
     sceneMode |-> mode]

-----------------------------------------------------------------------------
(* Point query: getDataAtLonLat *)

\* array[index] for a zero-based index that is itself a number: undefined,
\* read as NaN, unless the index is an integer inside the array.
Read(array, index) ==
    IF index[2] = 1 /\ index[1] >= 0 /\ index[1] < Len(array)
    THEN array[index[1] + 1]
    ELSE NaN

\* A variant of lines 170-173 without the test lat > bounds.north.
OutOfBoundsNoNorth(bounds, lon, lat) ==
    \/ Lt(lon, bounds.west)
    \/ Gt(lon, bounds.east)
    \/ Lt(lat, bounds.south)

\* Lines 170-173.
OutOfBounds(bounds, lon, lat) ==
    \/ Lt(lon, bounds.west)
    \/ Gt(lon, bounds.east)
    \/ Lt(lat, bounds.south)
    \/ Gt(lat, bounds.north)

\* Lines 176-182: the grid-space coordinates of the point.
GridX(data, lon) ==
    NumMul(NumDiv(NumSub(lon, data.bounds.west),
                  NumSub(data.bounds.east, data.bounds.west)),
           Whole(data.width - 1))

GridY(data, flipY, lat) ==
    LET yNorm == NumMul(NumDiv(NumSub(lat, data.bounds.south),
                               NumSub(data.bounds.north, data.bounds.south)),
                        Whole(data.height - 1))
    IN  IF flipY THEN NumSub(Whole(data.height - 1), yNorm) ELSE yNorm

\* A variant of lines 210-211 with the weights wx and 1 - wx exchanged.
BilinearSwapped(wx, wy, s00, s10, s01, s11) ==
    LET one == Whole(1)
    IN  NumAdd(NumAdd(NumAdd(
            NumMul(NumMul(wx, NumSub(one, wy)), s00),
            NumMul(NumMul(NumSub(one, wx), NumSub(one, wy)), s10)),
            NumMul(NumMul(wx, wy), s01)),
            NumMul(NumMul(NumSub(one, wx), wy), s11))

\* Lines 210-211 and 218-219.
Bilinear(wx, wy, s00, s10, s01, s11) ==
    LET one == Whole(1)
    IN  NumAdd(NumAdd(NumAdd(
            NumMul(NumMul(NumSub(one, wx), NumSub(one, wy)), s00),
            NumMul(NumMul(wx, NumSub(one, wy)), s10)),
            NumMul(NumMul(NumSub(one, wx), wy), s01)),
            NumMul(NumMul(wx, wy), s11))

\* Lines 195-203: the weights and the five indices.
LocalsOfCells(width, xNorm, yNorm, x0, x1, y0, y1) ==
    [xNorm |-> xNorm, yNorm |-> yNorm,
     wx |-> NumSub(xNorm, x0), wy |-> NumSub(yNorm, y0),
     index |-> NumAdd(NumMul(y0, width), x0),
     i00 |-> NumAdd(NumMul(y0, width), x0),
     i10 |-> NumAdd(NumMul(y0, width), x1),
     i01 |-> NumAdd(NumMul(y1, width), x0),
     i11 |-> NumAdd(NumMul(y1, width), x1)]

\* A variant of lines 185-192 without the Math.min of lines 190 and 192.
LocalsOfFloorUnclamped(data, xNorm, yNorm, x0, y0) ==
    LocalsOfCells(Whole(data.width), xNorm, yNorm,
                  x0, NumAdd(x0, Whole(1)), y0, NumAdd(y0, Whole(1)))

\* Lines 185-192: the cell of the point and its neighbours, kept on the grid.
LocalsOfFloor(data, xNorm, yNorm, x0, y0) ==
    LocalsOfCells(Whole(data.width), xNorm, yNorm,
                  x0, MathMin(NumAdd(x0, Whole(1)), Whole(data.width - 1)),
                  y0, MathMin(NumAdd(y0, Whole(1)), Whole(data.height - 1)))

LocalsOfGrid(data, xNorm, yNorm) ==
    LocalsOfFloor(data, xNorm, yNorm, Floor(xNorm), Floor(yNorm))

\* The local values of lines 176-203.
QueryLocals(data, flipY, lon, lat) ==
    LocalsOfGrid(data, GridX(data, lon), GridY(data, flipY, lat))

\* The result when the point is outside the field: null, no sample read.
NullResult ==
    [isNull |-> TRUE, reads |-> {},
     original |-> [u |-> NaN, v |-> NaN, speed |-> NaN],
     interpolated |-> [u |-> NaN, v |-> NaN, speed |-> [sqrtOf |-> NaN]],
     locals |-> [xNorm |-> NaN, yNorm |-> NaN, wx |-> NaN, wy |-> NaN,
                 index |-> NaN, i00 |-> NaN, i10 |-> NaN, i01 |-> NaN,
                 i11 |-> NaN]]

\* Lines 224-235: the object returned.
ResultOf(data, l, uInterp, vInterp) ==
    [isNull |-> FALSE,
     reads |-> {l.index, l.i00, l.i10, l.i01, l.i11},
     original |-> [u |-> Read(data.u.array, l.index),
                   v |-> Read(data.v.array, l.index),
                   speed |-> Read(data.speed.array, l.index)],
     interpolated |->
         [u |-> uInterp, v |-> vInterp,
          speed |-> [sqrtOf |-> NumAdd(NumMul(uInterp, uInterp),
                                       NumMul(vInterp, vInterp))]],
     locals |-> l]

\* Lines 206-219: the four samples of each component, interpolated.
Interpolate(array, l) ==
    Bilinear(l.wx, l.wy, Read(array, l.i00), Read(array, l.i10),
             Read(array, l.i01), Read(array, l.i11))

ResultOfLocals(data, l) ==
    ResultOf(data, l, Interpolate(data.u.array, l), Interpolate(data.v.array, l))

\* getDataAtLonLat.  reads are the indices at which it read the arrays;
\* the interpolated speed Math.sqrt(r) is kept as [sqrtOf |-> r].
getDataAtLonLat(data, flipY, lon, lat) ==
    IF OutOfBounds(data.bounds, lon, lat) THEN NullResult
    ELSE ResultOfLocals(data, QueryLocals(data, flipY, lon, lat))

-----------------------------------------------------------------------------
(* Options *)

\* DefaultOptions, lines 19-33 (the options the model follows).
DefaultOptions ==
    [particlesTextureSize |-> 100,
     speedFactor |-> 1,
     lineWidth |-> [min |-> 1, max |-> 2],
     lineLength |-> [min |-> 20, max |-> 100],
     flipY |-> FALSE,
     useViewerBounds |-> FALSE,
     dynamic |-> TRUE]

\* The option groups that hold options of their own.
OptionGroups == {"lineWidth", "lineLength"}

\* { ...base, ...partial } of line 90: every key of partial replaces base's.
ShallowMerge(base, partial) ==
    [k \in DOMAIN base \cup DOMAIN partial |->
        IF k \in DOMAIN partial THEN partial[k] ELSE base[k]]

\* deepMerge(partial, base) of ./utils: as ShallowMerge, but a group given in
\* partial is merged key by key into base's group.
deepMerge(partial, base) ==
    [k \in DOMAIN base \cup DOMAIN partial |->
        IF k \notin DOMAIN partial THEN base[k]
        ELSE IF k \in OptionGroups /\ k \in DOMAIN base
             THEN ShallowMerge(base[k], partial[k])
             ELSE partial[k]]

-----------------------------------------------------------------------------
(* The layer and its host *)

EventTypes == {"dataChange", "optionsChange"}

\* The subscriber functions the application may pass to addEventListener.
Callbacks == {"cbA", "cbB"}

\* What WindParticleSystem.getPrimitives returns.
EnginePrimitives == << "p1", "p2" >>

\* scene.mode: the three steady modes and the morph between them.
SceneModes == {"SCENE3D", "SCENE2D", "MORPHING"}

\* The event sources setupEventListeners registers with.
HostEvents == {"cameraChanged", "morphComplete", "resize"}

Range(seq) == {seq[i] : i \in DOMAIN seq}

\* One call of an operation to a collaborator: the engine's hooks, the scene,
\* a drawable's show setter, a subscriber.
Call(to, who, arg) == [to |-> to, who |-> who, arg |-> arg]

\* The argument recorded for a call that takes none the model follows.
NoArg == [none |-> TRUE]

\* Set.add and Set.delete on a set kept in insertion order.
SetAdd(set, x) == IF x \in Range(set) THEN set ELSE Append(set, x)

SetDelete(set, x) == SelectSeq(set, LAMBDA y : y # x)

\* new Map(): no kind has a set yet.
NoListeners == [t \in EventTypes |-> [present |-> FALSE, set |-> << >>]]

\* A variant of dispatchEvent that walks the sets of every kind.
dispatchEventAllKinds(listeners, type, data) ==
    [i \in DOMAIN listeners["dataChange"].set |->
        Call("callback", listeners["dataChange"].set[i], data)]
    \o [i \in DOMAIN listeners["optionsChange"].set |->
        Call("callback", listeners["optionsChange"].set[i], data)]

\* dispatchEvent, lines 432-434: one call per callback of the kind's set.
dispatchEvent(listeners, type, data) ==
    [i \in DOMAIN listeners[type].set |->
        Call("callback", listeners[type].set[i], data)]

\* updatePrimitivesVisibility, lines 404-409: one write per owned drawable.
updatePrimitivesVisibility(owned, visibility) ==
    [i \in DOMAIN owned |-> Call("primitive.show", owned[i], [value |-> visibility])]

\* The n-th function object made by updateViewerParameters.bind(this).
BoundFunction(n) == n

\* setupEventListeners, lines 107-112: three new bound functions, one
\* registered with each source.
SetupListeners ==
    [cameraChanged |-> {BoundFunction(1)},
     morphComplete |-> {BoundFunction(2)},
     resize |-> {BoundFunction(3)}]

\* removeEventListeners, lines 114-118: each source is asked to remove a
\* function object that bind has just made.
removeEventListeners(registered, made) ==
    [cameraChanged |-> registered.cameraChanged \ {BoundFunction(made + 1)},
     morphComplete |-> registered.morphComplete \ {BoundFunction(made + 2)},
     resize |-> registered.resize \ {BoundFunction(made + 3)}]

-----------------------------------------------------------------------------
(* Operations *)

\* The state the constructor (lines 86-105) leaves for the given raw field,
\* flipY option, scene mode and camera: show = true finds _show already true
\* and writes nothing; the first updateViewerParameters runs before the
\* engine exists; add() attaches the engine's drawables.
Constructed(data, flipY, mode, corners) ==
    /\ show = TRUE
    /\ isDestroyed = FALSE
    /\ options = ShallowMerge(DefaultOptions, [flipY |-> flipY])
    /\ windData = processWindData(data)
    /\ viewerParameters =
          updateViewerParameters(InitialViewerParameters(mode),
                                 processWindData(data), corners, mode)
    /\ primitives = EnginePrimitives
    /\ scenePrimitives = Range(EnginePrimitives)
    /\ primitiveShow = [p \in Range(EnginePrimitives) |-> TRUE]
    /\ eventListeners = NoListeners
    /\ sceneMode = mode
    /\ hostListeners = SetupListeners
    /\ bindCount = 3
    /\ engineDestroyed = FALSE
    /\ queryResult = NullResult
    /\ lastCall = [op |-> "constructor", arg |-> [data |-> data]]
    /\ calls = << >>
    /\ subscribed = [t \in EventTypes |-> {}]

layerVars == << show, isDestroyed, windData, options, viewerParameters,
                primitives, eventListeners >>

hostVars == << sceneMode, scenePrimitives, primitiveShow, hostListeners,
               bindCount, engineDestroyed >>

\* A variant of the show setter without the test this._show !== value.
SetShowAlways(value) ==
    /\ UNCHANGED subscribed
    /\ lastCall' = [op |-> "show", arg |-> [value |-> value]]
    /\ show' = value
    /\ primitiveShow' =
          [p \in DOMAIN primitiveShow |->
              IF p \in Range(primitives) THEN value ELSE primitiveShow[p]]
    /\ calls' = updatePrimitivesVisibility(primitives, value)
    /\ UNCHANGED << isDestroyed, windData, options, viewerParameters, primitives,
                    eventListeners, sceneMode, scenePrimitives, hostListeners,
                    bindCount, engineDestroyed, queryResult >>

\* set show(value), lines 44-49.
SetShow(value) ==
    /\ UNCHANGED subscribed
    /\ lastCall' = [op |-> "show", arg |-> [value |-> value]]
    /\ IF show # value
       THEN /\ show' = value
            /\ primitiveShow' =
                  [p \in DOMAIN primitiveShow |->
                      IF p \in Range(primitives) THEN value ELSE primitiveShow[p]]
            /\ calls' = updatePrimitivesVisibility(primitives, value)
       ELSE /\ UNCHANGED << show, primitiveShow >>
            /\ calls' = << >>
    /\ UNCHANGED << isDestroyed, windData, options, viewerParameters, primitives,
                    eventListeners, sceneMode, scenePrimitives, hostListeners,
                    bindCount, engineDestroyed, queryResult >>

\* add(), lines 367-372.
Add ==
    /\ UNCHANGED subscribed
    /\ lastCall' = [op |-> "add", arg |-> NoArg]
    /\ primitives' = EnginePrimitives
    /\ scenePrimitives' = scenePrimitives \cup Range(EnginePrimitives)
    /\ calls' = [i \in DOMAIN EnginePrimitives |->
                    Call("scene.primitives.add", EnginePrimitives[i], NoArg)]
    /\ UNCHANGED << show, isDestroyed, windData, options, viewerParameters,
                    eventListeners, sceneMode, primitiveShow, hostListeners,
                    bindCount, engineDestroyed, queryResult >>

\* remove(), lines 377-382.
Remove ==
    /\ UNCHANGED subscribed
    /\ lastCall' = [op |-> "remove", arg |-> NoArg]
    /\ primitives' = << >>
    /\ scenePrimitives' = scenePrimitives \ Range(primitives)
    /\ calls' = [i \in DOMAIN primitives |->
                    Call("scene.primitives.remove", primitives[i], NoArg)]
    /\ UNCHANGED << show, isDestroyed, windData, options, viewerParameters,
                    eventListeners, sceneMode, primitiveShow, hostListeners,
                    bindCount, engineDestroyed, queryResult >>

\* The functions that the model lets Function.bind create (three by the
\* constructor, three by every destroy()).
MaxBound == 9

\* destroy(), lines 395-402.  Nothing keeps it from being called again.
Destroy ==
    /\ bindCount < MaxBound
    /\ lastCall' = [op |-> "destroy", arg |-> NoArg]
    /\ primitives' = << >>
    /\ scenePrimitives' = scenePrimitives \ Range(primitives)
    /\ hostListeners' = removeEventListeners(hostListeners, bindCount)
    /\ bindCount' = bindCount + 3
    /\ engineDestroyed' = TRUE
    /\ eventListeners' = NoListeners
    /\ isDestroyed' = TRUE
    /\ subscribed' = [t \in EventTypes |-> {}]
    /\ calls' = [i \in DOMAIN primitives |->
                    Call("scene.primitives.remove", primitives[i], NoArg)]
                 \o << Call("engine.destroy", "", NoArg) >>
    /\ UNCHANGED << show, windData, options, viewerParameters, sceneMode,
                    primitiveShow, queryResult >>

\* A variant of updateWindData without the test of line 324.
UpdateWindDataUnguarded(data) ==
    /\ UNCHANGED subscribed
    /\ lastCall' = [op |-> "updateWindData", arg |-> [data |-> data]]
    /\ windData' = processWindData(data)
    /\ calls' = << Call("engine.updateWindData", "", windData'),
                   Call("scene.requestRender", "", NoArg) >>
                \o dispatchEvent(eventListeners, "dataChange", windData')
    /\ UNCHANGED << show, isDestroyed, options, viewerParameters, primitives,
                    eventListeners, queryResult >>
    /\ UNCHANGED hostVars

\* updateWindData(data), lines 323-330.
UpdateWindData(data) ==
    /\ UNCHANGED subscribed
    /\ lastCall' = [op |-> "updateWindData", arg |-> [data |-> data]]
    /\ IF isDestroyed
       THEN /\ calls' = << >>
            /\ UNCHANGED windData
       ELSE /\ windData' = processWindData(data)
            /\ calls' = << Call("engine.updateWindData", "", windData'),
                           Call("scene.requestRender", "", NoArg) >>
                        \o dispatchEvent(eventListeners, "dataChange", windData')
    /\ UNCHANGED << show, isDestroyed, options, viewerParameters, primitives,
                    eventListeners, queryResult >>
    /\ UNCHANGED hostVars

\* The calls destroy() makes (lines 396-398) when the layer owns `owned`.
DestroyCalls(owned) ==
    [i \in DOMAIN owned |-> Call("scene.primitives.remove", owned[i], NoArg)]
    \o << Call("engine.destroy", "", NoArg) >>

\* Where `callback` stands in a Set, 0 if it is not in it.
IndexOf(set, callback) ==
    IF callback \in Range(set)
    THEN CHOOSE i \in DOMAIN set : set[i] = callback
    ELSE 0

\* dispatchEvent (line 433) when the subscriber `destroyer` calls
\* layer.destroy() as it is invoked: forEach walks the Set it was called on,
\* which eventListeners.clear() (line 400) takes out of the Map but does not
\* empty, so the walk goes on after destroy() has returned.
DispatchDuring(listeners, type, data, destroyer, owned) ==
    LET walk == dispatchEvent(listeners, type, data)
        k == IndexOf(listeners[type].set, destroyer)
    IN  IF k = 0 THEN walk
        ELSE SubSeq(walk, 1, k) \o DestroyCalls(owned)
             \o SubSeq(walk, k + 1, Len(walk))

\* updateWindData(data), lines 323-330, with subscribers that act:
\* `destroyer` is the callback that calls layer.destroy() when it is
\* notified ("none": no callback does).
UpdateWindDataDuring(data, destroyer) ==
    /\ lastCall' = [op |-> "updateWindData", arg |-> [data |-> data]]
    /\ IF isDestroyed
       THEN /\ calls' = << >>
            /\ UNCHANGED << windData, primitives, scenePrimitives,
                            hostListeners, bindCount, engineDestroyed,
                            eventListeners, isDestroyed, subscribed >>
       ELSE /\ windData' = processWindData(data)
            /\ calls' = << Call("engine.updateWindData", "", windData'),
                           Call("scene.requestRender", "", NoArg) >>
                        \o DispatchDuring(eventListeners, "dataChange",
                                          windData', destroyer, primitives)
            /\ IF IndexOf(eventListeners["dataChange"].set, destroyer) # 0
               THEN /\ primitives' = << >>
                    /\ scenePrimitives' = scenePrimitives \ Range(primitives)
                    /\ hostListeners' =
                          removeEventListeners(hostListeners, bindCount)
                    /\ bindCount' = bindCount + 3
                    /\ engineDestroyed' = TRUE
                    /\ eventListeners' = NoListeners
                    /\ isDestroyed' = TRUE
                    /\ subscribed' = [t \in EventTypes |-> {}]
               ELSE UNCHANGED << primitives, scenePrimitives, hostListeners,
                                 bindCount, engineDestroyed, eventListeners,
                                 isDestroyed, subscribed >>
    /\ UNCHANGED << show, options, viewerParameters, sceneMode, primitiveShow,
                    queryResult >>

\* updateOptions(partial), lines 336-343.
UpdateOptions(partial) ==
    /\ UNCHANGED subscribed
    /\ lastCall' = [op |-> "updateOptions", arg |-> NoArg]
    /\ IF isDestroyed
       THEN /\ calls' = << >>
            /\ UNCHANGED options
       ELSE /\ options' = deepMerge(partial, options)
            /\ calls' = << Call("engine.changeOptions", "", partial),
                           Call("scene.requestRender", "", NoArg) >>
                        \o dispatchEvent(eventListeners, "optionsChange", options')
    /\ UNCHANGED << show, isDestroyed, windData, viewerParameters, primitives,
                    eventListeners, queryResult >>
    /\ UNCHANGED hostVars

\* addEventListener(type, callback), lines 416-421.
AddEventListener(type, callback) ==
    /\ lastCall' = [op |-> "addEventListener", arg |-> NoArg]
    /\ subscribed' = [subscribed EXCEPT ![type] = @ \cup {callback}]
    /\ eventListeners' =
          [eventListeners EXCEPT
              ![type] = [present |-> TRUE, set |-> SetAdd(@.set, callback)]]
    /\ calls' = << >>
    /\ UNCHANGED << show, isDestroyed, windData, options, viewerParameters,
                    primitives, queryResult >>
    /\ UNCHANGED hostVars

\* removeEventListener(type, callback), lines 428-430.
RemoveEventListener(type, callback) ==
    /\ lastCall' = [op |-> "removeEventListener", arg |-> NoArg]
    /\ subscribed' = [subscribed EXCEPT ![type] = @ \ {callback}]
    /\ eventListeners' =
          [eventListeners EXCEPT ![type].set = SetDelete(@, callback)]
    /\ calls' = << >>
    /\ UNCHANGED << show, isDestroyed, windData, options, viewerParameters,
                    primitives, queryResult >>
    /\ UNCHANGED hostVars

\* getDataAtLonLat(lon, lat), lines 166-236.
GetDataAtLonLat(lon, lat) ==
    /\ UNCHANGED subscribed
    /\ lastCall' = [op |-> "getDataAtLonLat", arg |-> [lon |-> lon, lat |-> lat]]
    /\ queryResult' = getDataAtLonLat(windData, options.flipY, lon, lat)
    /\ calls' = << >>
    /\ UNCHANGED layerVars
    /\ UNCHANGED hostVars

\* One of the three host events with the camera at `corners`: every function
\* registered with the source runs updateViewerParameters (lines 238-317),
\* which ends by handing the viewport to the engine.
HostEvent(source, corners) ==
    \E n \in {Cardinality(hostListeners[source])},
       l \in {ViewerLocals(windData, corners)} :
        /\ UNCHANGED subscribed
        /\ lastCall' = [op |-> source,
                        arg |-> [isOutsideGlobe |-> l.isOutsideGlobe,
                                 visibleRatio |-> l.visibleRatio,
                                 pixelSize |-> l.pixelSize]]
        /\ viewerParameters' =
              IF n = 0 THEN viewerParameters
              ELSE StoreLocals(viewerParameters, l, sceneMode')
        /\ calls' = [i \in 1..n |->
                        Call("engine.applyViewerParameters", "", viewerParameters')]
        /\ UNCHANGED << show, isDestroyed, windData, options, primitives,
                        eventListeners, scenePrimitives, primitiveShow,
                        hostListeners, bindCount, engineDestroyed, queryResult >>

\* camera.changed fires.
CameraChanged(corners) ==
    /\ sceneMode' = sceneMode
    /\ HostEvent("cameraChanged", corners)

\* window "resize" fires.
WindowResize(corners) ==
    /\ sceneMode' = sceneMode
    /\ HostEvent("resize", corners)

\* The scene starts to morph: scene.mode changes and no event fires.
MorphStart ==
    /\ UNCHANGED subscribed
    /\ sceneMode # "MORPHING"
    /\ sceneMode' = "MORPHING"
    /\ lastCall' = [op |-> "morphStart", arg |-> NoArg]
    /\ calls' = << >>
    /\ UNCHANGED layerVars
    /\ UNCHANGED << scenePrimitives, primitiveShow, hostListeners, bindCount,
                    engineDestroyed, queryResult >>

\* The scene reaches `mode` and scene.morphComplete fires.
MorphComplete(mode, corners) ==
    /\ sceneMode' = mode
    /\ HostEvent("morphComplete", corners)

-----------------------------------------------------------------------------
(* Inputs *)

\* A 2 x 2 field without speed and mask, and a 2 x 1 field over the eastern
\* half that brings its speed and a mask without range.
FieldA ==
    WindData(0, 2, 0, 1, 2, 2, << 3, 0, 0, 4 >>, << 4, 0, 3, 0 >>, NoAxis, NoAxis)

FieldB ==
    WindData(1, 2, 0, 1, 2, 1, << 0, 3 >>, << 0, 4 >>,
             FullAxis(Arr(<< 0, 5 >>), Whole(5), Whole(5)),
             BareAxis(Arr(<< 0, 1 >>)))

Fields == {FieldA, FieldB}

\* A field whose v and mask are shorter than its u, which has the
\* width * height = 4 cells.
FieldShort ==
    WindData(0, 2, 0, 1, 2, 2, << 3, 0, 0, 4 >>, << 4, 0 >>, NoAxis,
             BareAxis(Arr(<< 1 >>)))

\* Partial options for updateOptions.
Partials == {[flipY |-> TRUE], [lineWidth |-> [max |-> 5]]}

\* The whole of FieldA on screen, its eastern half, and a camera whose third
\* corner looks past the globe.
FullView == Corners(0, 2, 0, 1, {})

EastView == Corners(1, 2, 0, 1, {})

OffGlobeView == Corners(0, 2, 0, 1, {3})

Views == {FullView, EastView, OffGlobeView}

-----------------------------------------------------------------------------
(* Lifecycle and notifications: data and option updates, subscriptions,    *)
(* destroy                                                                 *)

Init ==
    \E data \in Fields : Constructed(data, FALSE, "SCENE3D", FullView)

Next ==
    \/ Destroy
    \/ \E data \in Fields \cup {FieldShort} : UpdateWindData(data)
    \/ \E partial \in Partials : UpdateOptions(partial)
    \/ \E type \in EventTypes, callback \in Callbacks :
          AddEventListener(type, callback)
    \/ \E type \in EventTypes, callback \in Callbacks :
          RemoveEventListener(type, callback)

Spec == Init /\ [][Next]_vars

-----------------------------------------------------------------------------
(* The layer under its host's events: camera, morph, resize, destroy *)

InitHost ==
    \E corners \in {FullView, OffGlobeView} :
        Constructed(FieldA, FALSE, "SCENE3D", corners)

NextHost ==
    \/ Destroy
    \/ \E corners \in Views : CameraChanged(corners)
    \/ \E corners \in Views : WindowResize(corners)
    \/ MorphStart
    \/ \E mode \in SceneModes \ {"MORPHING"}, corners \in Views :
          MorphComplete(mode, corners)

SpecHost == InitHost /\ [][NextHost]_vars

-----------------------------------------------------------------------------
(* The drawables: show, add, remove, destroy *)

InitDrawables == Constructed(FieldA, FALSE, "SCENE3D", FullView)

NextDrawables ==
    \/ \E value \in BOOLEAN : SetShow(value)
    \/ Add
    \/ Remove
    \/ Destroy
    \/ \E data \in Fields : UpdateWindData(data)
    \/ \E partial \in Partials : UpdateOptions(partial)

SpecDrawables == InitDrawables /\ [][NextDrawables]_vars

-----------------------------------------------------------------------------
(* The viewport tracker over every camera position of a small grid *)

\* The camera's corners fall on longitudes 0..MaxLon and latitudes 0..MaxLat.
MaxLon == 3

MaxLat == 1

\* A field of one cell with the given bounds.
Cell(west, east, south, north) ==
    WindData(west, east, south, north, 1, 1, << 3 >>, << 4 >>, NoAxis, NoAxis)

\* Bounds that cover the grid, its eastern part, a single meridian, and
\* bounds given east to west; the last two are not rejected by the code.
ViewportFields ==
    {Cell(0, MaxLon, 0, MaxLat), Cell(1, MaxLon, 0, MaxLat),
     Cell(1, 1, 0, MaxLat), Cell(MaxLon, 0, 0, MaxLat)}

\* Every camera whose four corners hit the globe, its bottom edge on the
\* equator and its left edge not east of its right edge, and two cameras
\* with a corner that does not.
ViewportViews ==
    {Corners(edges[1], edges[2], 0, edges[3], {}) :
        edges \in {e \in (0..MaxLon) \X (0..MaxLon) \X (0..MaxLat) :
                      e[1] <= e[2]}}
    \cup {Corners(0, MaxLon, 0, MaxLat, {1}), Corners(0, MaxLon, 0, MaxLat, {4})}

InitViewport ==
    \E data \in ViewportFields :
        Constructed(data, FALSE, "SCENE3D", Corners(0, MaxLon, 0, MaxLat, {}))

NextViewport ==
    \/ \E corners \in ViewportViews : CameraChanged(corners)
    \/ \E data \in ViewportFields : UpdateWindData(data)
    \/ UpdateOptions([flipY |-> TRUE])

SpecViewport == InitViewport /\ [][NextViewport]_vars

-----------------------------------------------------------------------------
(* The point query over fields of several shapes *)

\* Query points are the multiples of 1/2 from -1/2 to MaxQuery/2.
MaxQuery == 5

QueryPoints == {Num(k, 2) : k \in -1..MaxQuery}

\* Fields over [0,2] x [0,1] with grids of 1 x 1, 2 x 2, 3 x 2 and 2 x 3.
QueryFields ==
    {WindData(0, 2, 0, 1, 1, 1, << 3 >>, << 4 >>, NoAxis, NoAxis),
     FieldA,
     WindData(0, 2, 0, 1, 3, 2, << 3, 0, 5, 0, 4, 12 >>, << 4, 0, 12, 3, 0, 5 >>,
              NoAxis, NoAxis),
     WindData(0, 2, 0, 1, 2, 3, << 3, 0, 5, 0, 4, 12 >>, << 4, 0, 12, 3, 0, 5 >>,
              NoAxis, NoAxis)}

InitQuery ==
    \E data \in QueryFields, flipY \in BOOLEAN :
        Constructed(data, flipY, "SCENE3D", FullView)

NextQuery ==
    \E lon \in QueryPoints, lat \in QueryPoints : GetDataAtLonLat(lon, lat)

SpecQuery == InitQuery /\ [][NextQuery]_vars

-----------------------------------------------------------------------------
(* Teardown: subscribers that call destroy() while they are notified *)

Destroyers == Callbacks \cup {"none"}

InitTeardown == Constructed(FieldA, FALSE, "SCENE3D", FullView)

NextTeardown ==
    \/ Destroy
    \/ \E destroyer \in Destroyers : UpdateWindDataDuring(FieldB, destroyer)
    \/ \E partial \in Partials : UpdateOptions(partial)
    \/ \E type \in EventTypes, callback \in Callbacks :
          AddEventListener(type, callback)
    \/ \E type \in EventTypes, callback \in Callbacks :
          RemoveEventListener(type, callback)

SpecTeardown == InitTeardown /\ [][NextTeardown]_vars

-----------------------------------------------------------------------------
(* Normalisation of every small raw field, by the constructor and by        *)
(* updateWindData                                                           *)

\* The raw fields have 1..MaxCells cells in one row.
MaxCells == 2

\* The (u, v) of a cell: calm, or of magnitude 5 or 13.
CellSamples == {<< 0, 0 >>, << 3, 4 >>, << 5, 12 >>}

\* The values of a mask cell.
MaskSamples == {-1, 0, 1}

Tuples(n, S) == [1..n -> S]

\* What the caller may pass as speed for n cells: nothing, an axis with
\* array, min and max (not those of u and v), or the array alone.
RawSpeeds(n) ==
    {NoAxis,
     FullAxis([i \in 1..n |-> Whole(7)], Whole(1), Whole(9)),
     BareAxis([i \in 1..n |-> Whole(7)])}

\* What the caller may pass as mask for n cells: nothing, any array alone,
\* or an array with a min and a max.
RawMasks(n) ==
    {NoAxis, FullAxis([i \in 1..n |-> Whole(1)], Whole(0), Whole(2))}
    \cup {BareAxis(Arr(m)) : m \in Tuples(n, MaskSamples)}

RawFieldsOf(n) ==
    {WindData(0, 2, 0, 1, n, 1,
              [i \in 1..n |-> cells[i][1]], [i \in 1..n |-> cells[i][2]],
              speed, mask) :
        cells \in Tuples(n, CellSamples),
        speed \in RawSpeeds(n), mask \in RawMasks(n)}

RawFields == UNION {RawFieldsOf(n) : n \in 1..MaxCells}

InitNormalize ==
    \E data \in RawFields : Constructed(data, FALSE, "SCENE3D", FullView)

\* The application passes a new raw field, or passes the layer's own
\* normalised field back.
NextNormalize ==
    \/ \E data \in Fields : UpdateWindData(data)
    \/ UpdateWindData(windData)

SpecNormalize == InitNormalize /\ [][NextNormalize]_vars

-----------------------------------------------------------------------------
(* Properties *)

UpdateOps == {"updateWindData", "updateOptions"}

UpdateHooks ==
    {"engine.updateWindData", "engine.changeOptions", "scene.requestRender"}

\* How many of the calls of a step went to subscriber `callback`.
TimesCalled(log, callback) ==
    Cardinality({i \in DOMAIN log :
                    log[i].to = "callback" /\ log[i].who = callback})

\* C1: once destroy() has been called, isDestroyed() stays true, windData and
\* options keep the values they had when destroy() returned, and a later
\* updateWindData or updateOptions calls no update hook of the engine and
\* requests no render.
C1_DestroyedIsTerminal ==
    [][isDestroyed =>
          /\ isDestroyed'
          /\ windData' = windData
          /\ options' = options
          /\ lastCall'.op \in UpdateOps =>
                \A i \in DOMAIN calls' : calls'[i].to \notin UpdateHooks]_vars

\* An updateOptions call on a destroyed layer that left the options as
\* constructed, although every partial of the model changes one of them.
C1_Witness ==
    /\ isDestroyed
    /\ lastCall.op = "updateOptions"
    /\ options = ShallowMerge(DefaultOptions, [flipY |-> FALSE])

\* C2: after destroy() a camera-changed, morph-complete or resize event no
\* longer runs the viewport recompute: the viewport is not written and the
\* destroyed engine's applyViewerParameters is not called.
C2_NoRecomputeAfterDestroy ==
    [][(isDestroyed /\ lastCall'.op \in HostEvents) =>
          /\ viewerParameters' = viewerParameters
          /\ calls' = << >>]_vars

ValidBounds(bounds) ==
    Lt(bounds.west, bounds.east) /\ Lt(bounds.south, bounds.north)

Within(x, lo, hi) == Le(lo, x) /\ Le(x, hi)

\* C3: after a recompute in which all four corners hit the globe, both ends
\* of lonRange lie in [west, east] and both ends of latRange in
\* [south, north], wherever the corners lie relative to the field.
C3_ViewportWithinBounds ==
    (/\ lastCall.op \in HostEvents
     /\ ~lastCall.arg.isOutsideGlobe
     /\ ValidBounds(windData.bounds)) =>
        /\ Within(viewerParameters.lonRange[1],
                  windData.bounds.west, windData.bounds.east)
        /\ Within(viewerParameters.lonRange[2],
                  windData.bounds.west, windData.bounds.east)
        /\ Within(viewerParameters.latRange[1],
                  windData.bounds.south, windData.bounds.north)
        /\ Within(viewerParameters.latRange[2],
                  windData.bounds.south, windData.bounds.north)

\* C4: a recompute in which a corner misses the globe leaves lonRange,
\* latRange and pixelSize as they were and still hands the viewport to the
\* engine; after every recompute sceneMode is the scene's current mode.
C4_OffGlobeKeepsViewport ==
    [][lastCall'.op \in HostEvents =>
          /\ viewerParameters'.sceneMode = sceneMode'
          /\ lastCall'.arg.isOutsideGlobe =>
                /\ viewerParameters'.lonRange = viewerParameters.lonRange
                /\ viewerParameters'.latRange = viewerParameters.latRange
                /\ viewerParameters'.pixelSize = viewerParameters.pixelSize
                /\ calls' = << Call("engine.applyViewerParameters", "",
                                    viewerParameters') >>]_vars

\* An off-globe recompute after a morph to 2D: the mode is the new one, the
\* ranges and pixelSize are those of the eastern view seen before.
C4_Witness ==
    /\ lastCall.op \in HostEvents
    /\ lastCall.arg.isOutsideGlobe
    /\ sceneMode = "SCENE2D"
    /\ viewerParameters.sceneMode = "SCENE2D"
    /\ viewerParameters.pixelSize = Whole(525)
    /\ calls # << >>

PixelSizeInRange ==
    Within(viewerParameters.pixelSize, Whole(0), Whole(1000))

\* C5: pixelSize is in [0, 1000] before and after every step, so in every
\* reachable state, the constructor's included, and a recompute
\* whose computed 1000 * min(visibleLonRatio, visibleLatRatio) is not
\* positive leaves pixelSize as it was.
C5_PixelSizeInRange ==
    [][/\ PixelSizeInRange
       /\ PixelSizeInRange'
       /\ (/\ lastCall'.op \in HostEvents
           /\ ~lastCall'.arg.isOutsideGlobe
           /\ ~Gt(lastCall'.arg.pixelSize, Whole(0))) =>
             viewerParameters'.pixelSize = viewerParameters.pixelSize]_vars

\* An on-globe recompute that computed no positive pixelSize and kept the
\* value below 1000 that an earlier one had assigned.
C5_Witness ==
    /\ lastCall.op \in HostEvents
    /\ ~lastCall.arg.isOutsideGlobe
    /\ ~Gt(lastCall.arg.pixelSize, Whole(0))
    /\ Lt(viewerParameters.pixelSize, Whole(1000))

\* Two on-globe recomputes in a row over one field, the second of which sees
\* a fraction r2 of the field with r1 >= r2 > 0.
ZoomedIn ==
    /\ lastCall.op \in HostEvents
    /\ lastCall'.op \in HostEvents
    /\ ~lastCall.arg.isOutsideGlobe
    /\ ~lastCall'.arg.isOutsideGlobe
    /\ windData' = windData
    /\ Gt(lastCall'.arg.visibleRatio, Whole(0))
    /\ Le(lastCall'.arg.visibleRatio, lastCall.arg.visibleRatio)

\* C6 as stated: the second recompute assigns a pixelSize greater than or
\* equal to the first's.
C6_ZoomInRaisesPixelSize ==
    [][ZoomedIn =>
          Le(viewerParameters.pixelSize, viewerParameters'.pixelSize)]_vars

\* C6 as amended: the second recompute assigns a pixelSize less than or equal
\* to the first's.
C6_ZoomInLowersPixelSize ==
    [][ZoomedIn =>
          Le(viewerParameters'.pixelSize, viewerParameters.pixelSize)]_vars

\* A recompute that saw a fraction of the field strictly between 0 and 1 and
\* left a pixelSize below the 1000 of the full view.
C6_Witness ==
    /\ lastCall.op \in HostEvents
    /\ ~lastCall.arg.isOutsideGlobe
    /\ Gt(lastCall.arg.visibleRatio, Whole(0))
    /\ Lt(lastCall.arg.visibleRatio, Whole(1))
    /\ viewerParameters.pixelSize = NumMul(Whole(1000), lastCall.arg.visibleRatio)
    /\ Lt(viewerParameters.pixelSize, Whole(1000))

\* What an update of an Active layer must have called: the engine's hook
\* first, then every subscriber of the kind once with the new value, and no
\* other subscriber.
Notified(log, hook, type, data) ==
    /\ \E i \in DOMAIN log :
          /\ log[i].to = hook
          /\ \A j \in DOMAIN log : log[j].to = "callback" => i < j
    /\ \A c \in Callbacks :
          TimesCalled(log, c) = IF c \in subscribed[type] THEN 1 ELSE 0
    /\ \A j \in DOMAIN log :
          log[j].to = "callback" => log[j].arg = data

\* C7: on an Active layer each updateWindData calls, once each, exactly the
\* callbacks added for dataChange and not removed since, with the field that
\* is now windData and that the engine's hook has received; updateOptions
\* does the same for optionsChange with the merged options.
C7_NotifiesSubscribers ==
    [][~isDestroyed =>
          /\ lastCall'.op = "updateWindData" =>
                /\ Notified(calls', "engine.updateWindData", "dataChange",
                            windData')
                /\ \E i \in DOMAIN calls' :
                      calls'[i] = Call("engine.updateWindData", "", windData')
          /\ lastCall'.op = "updateOptions" =>
                Notified(calls', "engine.changeOptions", "optionsChange",
                         options')]_vars

\* An updateWindData that called both callbacks while cbA was also subscribed
\* to optionsChange and cbB had been removed from it.
C7_Witness ==
    /\ lastCall.op = "updateWindData"
    /\ TimesCalled(calls, "cbA") = 1
    /\ TimesCalled(calls, "cbB") = 1
    /\ subscribed["optionsChange"] = {"cbA"}
    /\ eventListeners["optionsChange"].present

\* C8: assigning show the value it has writes no drawable's visibility and
\* changes nothing; assigning the other value writes the new visibility to
\* every owned drawable once.
C8_RedundantShowIsNoOp ==
    [][lastCall'.op = "show" =>
          IF lastCall'.arg.value = show
          THEN /\ calls' = << >>
               /\ UNCHANGED << show, primitiveShow, primitives, scenePrimitives,
                               isDestroyed, windData, options, viewerParameters,
                               eventListeners >>
          ELSE /\ show' = lastCall'.arg.value
               /\ Len(calls') = Len(primitives)
               /\ \A i \in DOMAIN primitives :
                     /\ calls'[i] = Call("primitive.show", primitives[i],
                                         lastCall'.arg)
                     /\ primitiveShow'[primitives[i]] = lastCall'.arg.value]_vars

\* show = false assigned to a hidden layer that owns its drawables: nothing
\* was written.
C8_Witness ==
    /\ lastCall.op = "show"
    /\ lastCall.arg.value = FALSE
    /\ show = FALSE
    /\ primitives = EnginePrimitives
    /\ calls = << >>

\* C9: for a field with west < east and south < north, getDataAtLonLat
\* returns null, reading no sample, for every point beyond one of the four
\* edges, and a result for every other point, the points strictly inside
\* among them.
C9_NullExactlyOutside ==
    (lastCall.op = "getDataAtLonLat" /\ ValidBounds(windData.bounds)) =>
        IF \/ Lt(lastCall.arg.lon, windData.bounds.west)
           \/ Gt(lastCall.arg.lon, windData.bounds.east)
           \/ Lt(lastCall.arg.lat, windData.bounds.south)
           \/ Gt(lastCall.arg.lat, windData.bounds.north)
        THEN queryResult.isNull /\ queryResult.reads = {}
        ELSE ~queryResult.isNull

\* A query north of the field, its longitude inside: null.
C9_Witness ==
    /\ lastCall.op = "getDataAtLonLat"
    /\ Gt(lastCall.arg.lat, windData.bounds.north)
    /\ Within(lastCall.arg.lon, windData.bounds.west, windData.bounds.east)
    /\ queryResult.isNull

IsWhole(a) == a[2] = 1

\* C10: when both grid-space coordinates of the point are integers, the
\* interpolated u and v are the stored u and v of that grid cell and the
\* original u and v of the same result.
C10_ExactAtGridNodes ==
    (/\ lastCall.op = "getDataAtLonLat"
     /\ ~queryResult.isNull
     /\ IsWhole(queryResult.locals.xNorm)
     /\ IsWhole(queryResult.locals.yNorm)) =>
        LET cell == Whole(queryResult.locals.yNorm[1] * windData.width
                          + queryResult.locals.xNorm[1])
        IN  /\ queryResult.interpolated.u = Read(windData.u.array, cell)
            /\ queryResult.interpolated.v = Read(windData.v.array, cell)
            /\ queryResult.interpolated.u = queryResult.original.u
            /\ queryResult.interpolated.v = queryResult.original.v

\* A query at the north-east corner of the 3 x 2 field, flipY off: the last
\* cell of the grid.
C10_Witness ==
    /\ lastCall.op = "getDataAtLonLat"
    /\ ~queryResult.isNull
    /\ windData.width = 3
    /\ ~options.flipY
    /\ queryResult.locals.xNorm = Whole(2)
    /\ queryResult.locals.yNorm = Whole(1)
    /\ queryResult.interpolated.u = Whole(12)

\* Whether the last operation normalised a raw field into windData.
Normalised ==
    /\ lastCall.op \in {"constructor", "updateWindData"}
    /\ ~isDestroyed

\* Whether normalisation derives the speed axis of raw field `data`
\* (line 121).
DerivesSpeed(data) ==
    ~(data.speed.defined /\ data.speed.hasArray
      /\ data.speed.hasMin /\ data.speed.hasMax)

\* The magnitudes sqrt(u[i]^2 + v[i]^2) of the cells of `data` that are
\* not calm.
Magnitudes(data) ==
    {SpeedAt(data, i) : i \in DOMAIN data.u.array} \ {Whole(0)}

Least(S) == CHOOSE x \in S : \A y \in S : Le(x, y)

Greatest(S) == CHOOSE x \in S : \A y \in S : Le(y, x)

\* C11: when normalisation derives the speed axis, speed.min and speed.max
\* are the least and the greatest magnitude among the cells that are not
\* calm; when every cell is calm, min is the sentinel Number.MAX_VALUE and
\* max the sentinel Number.MIN_VALUE, so min > max.
C11_SpeedRangeIgnoresCalmCells ==
    (Normalised /\ DerivesSpeed(lastCall.arg.data)) =>
        IF Magnitudes(lastCall.arg.data) # {}
        THEN /\ windData.speed.min = Least(Magnitudes(lastCall.arg.data))
             /\ windData.speed.max = Greatest(Magnitudes(lastCall.arg.data))
        ELSE /\ windData.speed.min = NumberMaxValue
             /\ windData.speed.max = NumberMinValue
             /\ Gt(windData.speed.min, windData.speed.max)

\* A field of one calm cell and one cell of magnitude 5, its speed derived:
\* min = max = 5.
C11_Witness ==
    /\ Normalised
    /\ DerivesSpeed(lastCall.arg.data)
    /\ windData.speed.array = << Whole(0), Whole(5) >>
    /\ windData.speed.min = Whole(5)
    /\ windData.speed.max = Whole(5)

\* A field that carries a speed axis with array, min and max and a mask
\* with min and max.
Complete(data) ==
    /\ ~DerivesSpeed(data)
    /\ data.mask.defined /\ data.mask.hasMin /\ data.mask.hasMax

\* C12: normalising a complete field returns a field equal to it, and
\* normalising the result of a normalisation returns that result.
C12_NormalizeIsIdempotent ==
    Normalised =>
        /\ Complete(lastCall.arg.data) => windData = lastCall.arg.data
        /\ Complete(windData)
        /\ processWindData(windData) = windData

\* updateWindData was given the layer's own field, whose speed and mask
\* range an earlier normalisation had derived, and left it as it was.
C12_Witness ==
    /\ Normalised
    /\ lastCall.op = "updateWindData"
    /\ lastCall.arg.data = windData
    /\ windData.speed.array = << Whole(0), Whole(5) >>
    /\ windData.speed.min = Whole(5)
    /\ windData.mask.array = << Whole(-1), Whole(1) >>
    /\ windData.mask.min = Whole(-1)

\* Whether every array of `data` has width * height cells.
WellShaped(data) ==
    /\ Len(data.u.array) = data.width * data.height
    /\ Len(data.v.array) = data.width * data.height
    /\ data.speed.hasArray => Len(data.speed.array) = data.width * data.height
    /\ data.mask.defined => Len(data.mask.array) = data.width * data.height

\* C13: updateWindData on an Active layer with a field whose arrays do not
\* all have width * height cells fails: windData stays the previous field,
\* the engine's hook is not called and no subscriber is notified.
C13_MismatchedShapeRejected ==
    [][(/\ ~isDestroyed
        /\ lastCall'.op = "updateWindData"
        /\ ~WellShaped(lastCall'.arg.data)) =>
          /\ windData' = windData
          /\ calls' = << >>]_vars

\* C14: the bounds of an Active layer's field always have west < east and
\* south < north, because the constructor and updateWindData refuse every
\* other field.
C14_BoundsNeverDegenerate ==
    ~isDestroyed => ValidBounds(windData.bounds)

\* Whether the caller supplied a mask without min or without max (line 145).
ScansMask(data) ==
    data.mask.defined /\ ~(data.mask.hasMin /\ data.mask.hasMax)

\* C15: when a mask is supplied without min or max, normalisation sets
\* mask.min and mask.max to the least and the greatest value of the mask
\* array, whatever the mask holds.
C15_MaskRangeIsTrueRange ==
    (Normalised /\ ScansMask(lastCall.arg.data)) =>
        /\ windData.mask.min = Least(Range(lastCall.arg.data.mask.array))
        /\ windData.mask.max = Greatest(Range(lastCall.arg.data.mask.array))

\* C16: no subscriber is called once the layer is Destroyed: an operation
\* on a Destroyed layer calls no callback, callbacks added after destroy()
\* included, and an operation during which a subscriber calls destroy()
\* calls no callback after destroy() has returned.
C16_NoCallbackOnceDestroyed ==
    [][/\ isDestroyed =>
             \A j \in DOMAIN calls' : calls'[j].to # "callback"
       /\ \A i, j \in DOMAIN calls' :
             (calls'[i].to = "engine.destroy" /\ i < j) =>
                 calls'[j].to # "callback"]_vars

\* C17: once destroy() has been called, the scene holds none of the layer's
\* drawables and the layer owns none, whatever is called afterwards.
C17_DetachedAfterDestroy ==
    isDestroyed =>
        /\ primitives = << >>
        /\ scenePrimitives \cap Range(EnginePrimitives) = {}

\* C18: on an Active layer every drawable the layer has attached to the
\* scene has its show flag equal to the layer's show.
C18_VisibilityMatchesShow ==
    ~isDestroyed =>
        \A p \in Range(primitives) \cap scenePrimitives :
            primitiveShow[p] = show

\* Whether both ends of both ranges of viewport `params` lie within `bounds`.
RangesWithin(params, bounds) ==
    /\ Within(params.lonRange[1], bounds.west, bounds.east)
    /\ Within(params.lonRange[2], bounds.west, bounds.east)
    /\ Within(params.latRange[1], bounds.south, bounds.north)
    /\ Within(params.latRange[2], bounds.south, bounds.north)

\* The last thing that happened was a recompute with all corners on the
\* globe (the constructor's, in this specification, is one) that left the
\* ranges within the field.
RecomputedOnGlobe ==
    /\ \/ lastCall.op = "constructor"
       \/ lastCall.op \in HostEvents /\ ~lastCall.arg.isOutsideGlobe
    /\ RangesWithin(viewerParameters, windData.bounds)

\* C19: when updateWindData returns on an Active layer whose last recompute
\* was on-globe, lonRange and latRange lie within the bounds of the new
\* field.
C19_ViewportFollowsData ==
    [][(/\ ~isDestroyed
        /\ RecomputedOnGlobe
        /\ lastCall'.op = "updateWindData"
        /\ ValidBounds(windData'.bounds)) =>
          RangesWithin(viewerParameters', windData'.bounds)]_vars

\* Whether `index` is a cell of the grid of `data`.
OnGrid(data, index) ==
    /\ IsWhole(index)
    /\ index[1] \in 0..(data.width * data.height - 1)

UnitWeight(w) == Le(Whole(0), w) /\ Lt(w, Whole(1))

\* C20: for a field with west < east and south < north and a point within
\* its bounds, edges included, the index of the original value and the four
\* indices of the interpolation are cells of the grid, wx and wy lie in
\* [0, 1), and wx (wy) is 0 when width (height) is 1.
C20_QueryStaysOnGrid ==
    (/\ lastCall.op = "getDataAtLonLat"
     /\ ValidBounds(windData.bounds)
     /\ Within(lastCall.arg.lon, windData.bounds.west, windData.bounds.east)
     /\ Within(lastCall.arg.lat, windData.bounds.south, windData.bounds.north)) =>
        /\ ~queryResult.isNull
        /\ \A index \in {queryResult.locals.index, queryResult.locals.i00,
                          queryResult.locals.i10, queryResult.locals.i01,
                          queryResult.locals.i11} : OnGrid(windData, index)
        /\ UnitWeight(queryResult.locals.wx)
        /\ UnitWeight(queryResult.locals.wy)
        /\ windData.width = 1 => queryResult.locals.wx = Whole(0)
        /\ windData.height = 1 => queryResult.locals.wy = Whole(0)

\* A query on the east edge of the 3 x 2 field, half way up with flipY on:
\* wx = 0, wy = 1/2, and the eastern neighbours are the last column itself.
C20_Witness ==
    /\ lastCall.op = "getDataAtLonLat"
    /\ ~queryResult.isNull
    /\ windData.width = 3
    /\ options.flipY
    /\ lastCall.arg.lon = windData.bounds.east
    /\ queryResult.locals.wx = Whole(0)
    /\ queryResult.locals.wy = Num(1, 2)
    /\ queryResult.locals.i00 = Whole(2)
    /\ queryResult.locals.i10 = Whole(2)
    /\ queryResult.locals.i11 = Whole(5)

=============================================================================
